---- MODULE Spec2Model ----
(***************************************************************************)
(* A model of the array utilities of scikit-xray:                          *)
(*   skbeam/core/mask.py   ring_blur_mask                                  *)
(*   nsls2/core.py         MD_dict, img_subtraction_pre, detector2D_to_1D  *)
(*   skbeam/core/accumulators/projector.py  RadialProjector (its source is *)
(*   not part of the tree; it is modelled from the written specification)  *)
(*                                                                         *)
(* Arrays are flat, row-major sequences together with a shape.  Indices    *)
(* of the Python code are 0-based; the 1-based TLA+ sequences are read     *)
(* through At0.  Intensities, q values and bin edges are integers, and     *)
(* the comparisons against mean +- alpha*std are carried out exactly, by   *)
(* squaring (no rounding is modelled).                                     *)
(***************************************************************************)
EXTENDS Integers, Sequences, FiniteSets, TLC

VARIABLES
    \* ring_blur_mask(img, q, alpha, bins, mask)
    shape, img, q, alpha, bins, mask, ring_pc, ring_out,
    \* MD_dict
    md_dict, md_call,
    \* img_subtraction_pre(img_arr, is_reference)
    img_arr, is_reference, ref_imge, corrected_image, count, sub_i, sub_pc,
    \* detector2D_to_1D(img, detector_center)
    det_img, det_shape, detector_center, flat, counter, it, det_pc,
    \* RadialProjector
    proj_cfg, proj_image, projection, proj_pc

ringVars == <<shape, img, q, alpha, bins, mask, ring_pc, ring_out>>
mdVars   == <<md_dict, md_call>>
subVars  == <<img_arr, is_reference, ref_imge, corrected_image, count, sub_i, sub_pc>>
detVars  == <<det_img, det_shape, detector_center, flat, counter, it, det_pc>>
projVars == <<proj_cfg, proj_image, projection, proj_pc>>
vars     == <<ringVars, mdVars, subVars, detVars, projVars>>

(***************************************************************************)
(* Generic helpers                                                         *)
(***************************************************************************)
At0(s, i) == s[i + 1]

Size(shp) == IF Len(shp) = 0 THEN 1 ELSE IF Len(shp) = 1 THEN shp[1] ELSE shp[1] * shp[2]

RECURSIVE SumOver(_, _)
SumOver(f, S) ==
    IF S = {} THEN 0
    ELSE LET x == CHOOSE y \in S : TRUE IN f[x] + SumOver(f, S \ {x})

(***************************************************************************)
(* ring_blur_mask                                                          *)
(***************************************************************************)
NoMask == [given |-> FALSE, shape |-> <<>>, data |-> <<>>]

\* mask = np.ones(img.shape).astype(bool)
OnesMask(shp) == [p \in 1..Size(shp) |-> TRUE]

\* mask.reshape(img.shape): the flat (row-major) data is kept, the shape is
\* replaced; numpy raises ValueError when the element counts differ.
ReshapeTransposed(m, shp) ==
    IF Len(m.data) # Size(shp) THEN [status |-> "ValueError", data |-> <<>>]
    ELSE [status |-> "ok",
          data |-> [p \in 1..Size(shp) |->
                       LET i == (p - 1) \div shp[2]
                           j == (p - 1) % shp[2]
                       IN  m.data[j * shp[1] + i + 1]]]

Reshape(m, shp) ==
    IF Len(m.data) # Size(shp) THEN [status |-> "ValueError", data |-> <<>>]
    ELSE [status |-> "ok", data |-> m.data]

\* lines 166-169
StartMask(shp, m) ==
    IF ~m.given THEN [status |-> "ok", data |-> OnesMask(shp)]
    ELSE IF m.shape # shp THEN Reshape(m, shp)
    ELSE [status |-> "ok", data |-> m.data]

\* lines 173-176: int_q starts as zeros; a pixel of ring i gets i - 1
NRings(b) == Len(b) - 1

InRing(b, i, v) == At0(b, i) <= v /\ v < At0(b, i + 1)

IntQSameIndex(b, v) ==
    LET hit == {i \in 0..(NRings(b) - 1) : InRing(b, i, v)}
    IN  IF hit = {} THEN 0
        ELSE CHOOSE i \in hit : \A k \in hit : k <= i

IntQ(b, v) ==
    LET hit == {i \in 0..(NRings(b) - 1) : InRing(b, i, v)}
    IN  IF hit = {} THEN 0
        ELSE (CHOOSE i \in hit : \A k \in hit : k <= i) - 1

\* lines 178-181: binned_statistic(msk_q, msk_img, bins=bins[1:]); the edges
\* are bins[1:], every bin is half open but the last one, which is closed.
StatEdges(b) == SubSeq(b, 2, Len(b))

NStat(b) == Len(b) - 2

InStatBin(b, j, v) ==
    LET e == StatEdges(b)
    IN  /\ At0(e, j) <= v
        /\ \/ v < At0(e, j + 1)
           \/ j = NStat(b) - 1 /\ v = At0(e, j + 1)

\* the masked pixels (msk_q, msk_img) that fall in statistics bin j
StatPixels(b, qq, m0, j) == {p \in 1..Len(qq) : m0[p] /\ InStatBin(b, j, qq[p])}

\* count, sum and sum of squares of a set of pixels: mean = s/n and
\* std = sqrt(n*ss - s*s)/n (np.std, ddof = 0)
Stats(im, P) ==
    [n  |-> Cardinality(P),
     s  |-> SumOver(im, P),
     ss |-> SumOver([p \in DOMAIN im |-> im[p] * im[p]], P)]

\* lines 182-184: alpha as a sequence of rationals <<num, den>>, or an error.
\* A tuple goes through np.linspace(alpha[0], alpha[1], len(std)); anything
\* else is multiplied with std under numpy's broadcasting rules.
Linspace(a0, a1, n) ==
    IF n = 1 THEN << <<a0, 1>> >>
    ELSE [j \in 1..n |-> <<a0 * (n - 1) + (j - 1) * (a1 - a0), n - 1>>]

AlphaVec(a, n) ==
    IF a.kind = "tuple"
    THEN IF Len(a.val) < 2 THEN [status |-> "IndexError", vec |-> <<>>]
         ELSE [status |-> "ok", vec |-> Linspace(a.val[1], a.val[2], n)]
    ELSE IF a.kind = "scalar"
    THEN [status |-> "ok", vec |-> [j \in 1..n |-> <<a.val[1], 1>>]]
    ELSE IF Len(a.val) = n \/ Len(a.val) = 1 \/ n = 1
    THEN [status |-> "ok", vec |-> [j \in 1..Len(a.val) |-> <<a.val[j], 1>>]]
    ELSE [status |-> "ValueError", vec |-> <<>>]

\* element j of an array of length n broadcast against another array
Bcast(n, j) == IF n = 1 THEN 0 ELSE j

\* img < mean - alpha*std and img > mean + alpha*std for statistics st and
\* alpha = a[1]/a[2] >= 0; an empty bin has mean NaN and compares false.
TooLow(v, st, a) ==
    LET x == a[2] * (st.s - st.n * v)
        d == st.n * st.ss - st.s * st.s
    IN  st.n > 0 /\ x > 0 /\ x * x > a[1] * a[1] * d

TooHi(v, st, a) ==
    LET x == a[2] * (st.n * v - st.s)
        d == st.n * st.ss - st.s * st.s
    IN  st.n > 0 /\ x > 0 /\ x * x > a[1] * a[1] * d

\* lower[int_q], upper[int_q]: a negative index counts from the end
PyIndex(n, k) == IF k < 0 THEN n + k ELSE k

\* lines 166-193
ring_blur_mask(shp, im, qq, al, b, m) ==
    LET m0 == StartMask(shp, m)
        av == AlphaVec(al, NStat(b))
    IN  IF m0.status # "ok" THEN [status |-> m0.status, mask |-> <<>>]
        ELSE IF av.status # "ok" THEN [status |-> av.status, mask |-> <<>>]
        ELSE
          LET n   == NStat(b)
              len == IF Len(av.vec) > n THEN Len(av.vec) ELSE n
              st  == [j \in 0..(n - 1) |-> Stats(im, StatPixels(b, qq, m0.data, j))]
              idx == [p \in 1..Len(im) |-> PyIndex(len, IntQ(b, qq[p]))]
              low == [p \in 1..Len(im) |->
                        TooLow(im[p], st[Bcast(n, idx[p])],
                               At0(av.vec, Bcast(Len(av.vec), idx[p])))]
              hi  == [p \in 1..Len(im) |->
                        TooHi(im[p], st[Bcast(n, idx[p])],
                              At0(av.vec, Bcast(Len(av.vec), idx[p])))]
          IN  IF \E p \in 1..Len(im) : idx[p] < 0 \/ idx[p] >= len
              THEN [status |-> "IndexError", mask |-> <<>>]   \* lower[int_q]
              ELSE [status |-> "ok",
                    mask   |-> [p \in 1..Len(im) |-> m0.data[p] /\ ~low[p] /\ ~hi[p]]]

(***************************************************************************)
(* MD_dict: a tree of dicts addressed by dotted keys.  md_dict maps every  *)
(* existing path (the sequence key.split('.')) to a node: a branch (a      *)
(* nested MD_dict) or a leaf, an md_value (value, units).  Values and      *)
(* units are written as strings, None as "None".                           *)
(***************************************************************************)
Keys == {"a", "b"}

Branch == [kind |-> "branch", value |-> "", units |-> ""]

NoneNode == [kind |-> "None", value |-> "", units |-> ""]

\* md_value = namedtuple("md_value", ['value', 'units'])
md_value(v, u) == [kind |-> "leaf", value |-> v, units |-> u]

IsBranch(d, p) == p \in DOMAIN d /\ d[p].kind = "branch"

IsLeaf(d, p) == p \in DOMAIN d /\ d[p].kind = "leaf"

IsPrefix(p, x) == Len(p) <= Len(x) /\ SubSeq(x, 1, Len(p)) = p

\* tmp[k] = v : the entry at path p is replaced, with whatever hung below it
Put(d, p, v) ==
    [x \in {y \in DOMAIN d : ~IsPrefix(p, y)} \cup {p} |-> IF x = p THEN v ELSE d[x]]

\* del tmp[k]
Drop(d, p) == [x \in {y \in DOMAIN d : ~IsPrefix(p, y)} |-> d[x]]

\* lines 129-137 and 165-174: for k in key_split[:-1], "try: tmp = tmp[k]._dict",
\* and on any exception (k absent: KeyError; tmp[k] an md_value, which has no
\* _dict: AttributeError) "tmp[k] = type(self)()".  tmp is a dict after either
\* branch, so the isinstance(tmp, md_value) test that guards the KeyError is
\* false on every pass.
RECURSIVE Walk(_, _, _)
Walk(d, ks, i) ==
    IF i > Len(ks) - 1 THEN d
    ELSE LET p == SubSeq(ks, 1, i)
         IN  IF IsBranch(d, p) THEN Walk(d, ks, i + 1)
             ELSE Walk(Put(d, p, Branch), ks, i + 1)

\* lines 139-160: the md_value stored for val
MdValue(val) ==
    IF val.kind = "str" THEN md_value(val.v[1], "text")
    ELSE IF val.kind = "num" THEN md_value(val.v[1], "None")
    ELSE md_value(val.v[1], val.v[2])

\* the values handed to __setitem__: a bare number, a bare string, a
\* (value, units) pair
SetVals ==
    {[kind |-> "num", v |-> <<"2">>], [kind |-> "str", v |-> <<"test">>],
     [kind |-> "pair", v |-> <<"5", "m">>]}

\* lines 125-160
SetItem(d, ks, val) == Put(Walk(d, ks, 1), ks, MdValue(val))

\* lines 162-176: the dict after the walk, and tmp.get(key_split[-1], None)
GetItemDict(d, ks) == Walk(d, ks, 1)

GetItemValue(d, ks) ==
    LET t == Walk(d, ks, 1) IN IF ks \in DOMAIN t THEN t[ks] ELSE NoneNode

\* lines 178-186: the walk raises on an absent key (KeyError) and on a leaf
\* (AttributeError); del raises KeyError on an absent last key
DelItemStatus(d, ks) ==
    LET bad == {i \in 1..(Len(ks) - 1) : ~IsBranch(d, SubSeq(ks, 1, i))}
    IN  IF bad # {}
        THEN LET i == CHOOSE k \in bad : \A m \in bad : k <= m
             IN  IF IsLeaf(d, SubSeq(ks, 1, i)) THEN "AttributeError" ELSE "KeyError"
        ELSE IF ks \notin DOMAIN d THEN "KeyError" ELSE "ok"

DelItem(d, ks) == IF DelItemStatus(d, ks) = "ok" THEN Drop(d, ks) ELSE d

(***************************************************************************)
(* img_subtraction_pre: an image is the sequence of its pixels             *)
(***************************************************************************)
ImgMinus(a, b) == [p \in DOMAIN a |-> a[p] - b[p]]

ZeroImg(a) == [p \in DOMAIN a |-> 0]

\* ref_count = np.sum(is_reference)
RefCount(flags) == Cardinality({i \in DOMAIN flags : flags[i]})

\* lines 258-260: a reference image replaces ref_imge
KeepFirstRef(ref, im, isref) == ref

NextRef(ref, im, isref) == IF isref THEN im ELSE ref

(***************************************************************************)
(* detector2D_to_1D                                                        *)
(***************************************************************************)
\* flat = [None] * (img.shape[0] * img.shape[1]); None is written <<>>
NoneList(n) == [k \in 1..n |-> <<>>]

\* it = np.nditer(img, flags=['multi_index']): at the first element, with
\* finished False for an array that holds an element
NdIter(shp) == [multi_index |-> <<0, 0>>, finished |-> Size(shp) = 0]

\* it[0]: the element under the iterator
ItValue(im, shp, iter) == im[iter.multi_index[1] * shp[2] + iter.multi_index[2] + 1]

\* lines 284-286
Triple(im, shp, iter, c) ==
    <<iter.multi_index[1] - c[1], iter.multi_index[2] - c[2], ItValue(im, shp, iter)>>

(***************************************************************************)
(* RadialProjector (modelled from the written specification).  A pixel     *)
(* (i, j) of the image has x = i, y = j, or x = j, y = i when cartesian.   *)
(* Radii are compared through their squares; angles are in degrees in      *)
(* [0, 360) and the wedge bounds are multiples of 45, so that an angle is  *)
(* known well enough by its octant, floor(angle / 45).                     *)
(***************************************************************************)
\* floor(atan2(dy, dx) / 45) with atan2 mapped into [0, 360)
Octant(dx, dy) ==
    IF dy = 0 THEN (IF dx >= 0 THEN 0 ELSE 4)
    ELSE IF dx = 0 THEN (IF dy > 0 THEN 2 ELSE 6)
    ELSE IF dx > 0 /\ dy > 0 THEN (IF dy < dx THEN 0 ELSE 1)
    ELSE IF dx < 0 /\ dy > 0 THEN (IF dy > -dx THEN 2 ELSE 3)
    ELSE IF dx < 0 /\ dy < 0 THEN (IF -dy < -dx THEN 4 ELSE 5)
    ELSE (IF -dy > dx THEN 6 ELSE 7)

\* phimin <= angle < phimax
InWedge(cfg, dx, dy) ==
    cfg.phimin \div 45 <= Octant(dx, dy) /\ Octant(dx, dy) < cfg.phimax \div 45

\* nbins equal-width bins over [rmin, rmax], the last one closed; -1 when the
\* radius is out of range.  r2 is the squared radius.
RadialBin(cfg, r2) ==
    LET n    == cfg.nbins
        E(i) == n * cfg.rmin + i * (cfg.rmax - cfg.rmin)
        ge   == {i \in 0..n : n * n * r2 >= E(i) * E(i)}
        top  == CHOOSE i \in ge : \A k \in ge : k <= i
    IN  IF ge = {} THEN -1
        ELSE IF top < n THEN top
        ELSE IF n * n * r2 = E(n) * E(n) THEN n - 1
        ELSE -1

ProjCols(cfg) == IF cfg.cartesian THEN cfg.xsize ELSE cfg.ysize

\* x - xc and y - yc of the pixel at flat position p
PixDx(cfg, p) ==
    LET i == (p - 1) \div ProjCols(cfg)
        j == (p - 1) % ProjCols(cfg)
    IN  (IF cfg.cartesian THEN j ELSE i) - cfg.xc

PixDy(cfg, p) ==
    LET i == (p - 1) \div ProjCols(cfg)
        j == (p - 1) % ProjCols(cfg)
    IN  (IF cfg.cartesian THEN i ELSE j) - cfg.yc

\* the pixels summed into radial bin b: the radial selection intersected with
\* the wedge selection
ProjPixelsWedgeOnly(cfg, b, wedge) ==
    {p \in 1..(cfg.xsize * cfg.ysize) :
        IF wedge THEN InWedge(cfg, PixDx(cfg, p), PixDy(cfg, p))
        ELSE RadialBin(cfg, PixDx(cfg, p) * PixDx(cfg, p) + PixDy(cfg, p) * PixDy(cfg, p)) = b}

ProjPixels(cfg, b, wedge) ==
    {p \in 1..(cfg.xsize * cfg.ysize) :
        /\ RadialBin(cfg, PixDx(cfg, p) * PixDx(cfg, p) + PixDy(cfg, p) * PixDy(cfg, p)) = b
        /\ wedge => InWedge(cfg, PixDx(cfg, p), PixDy(cfg, p))}

\* __call__(image) with norm=False: the summed intensity of every radial bin
Project(cfg, im, wedge) ==
    [b \in 1..cfg.nbins |-> SumOver(im, ProjPixels(cfg, b - 1, wedge))]

(***************************************************************************)
(* Bounds and input sets                                                   *)
(***************************************************************************)
NPix == 3            \* pixels of the images handed to ring_blur_mask
MaxQ == 3            \* q values and bin edges are in 0..MaxQ
MaxI == 2            \* intensities are in 0..MaxI
ShapeMaxPix == 4     \* pixels of the images whose mask comes in another shape
MaxRing == 12        \* pixels of the ring that holds the outlier
MaxExtra == 1        \* pixels besides that ring
MaxDepth == 2        \* segments of a dotted key
MaxSeries == 3       \* images of a series
DetMaxSide == 2      \* rows and columns of a detector image
ProjX == 3           \* xsize of a projected image (ysize is 2)

RECURSIVE SeqsUpTo(_, _)
SeqsUpTo(S, n) ==
    IF n = 0 THEN {<<>>}
    ELSE LET shorter == SeqsUpTo(S, n - 1)
         IN  shorter \cup {Append(t, x) : t \in {u \in shorter : Len(u) = n - 1}, x \in S}

Ascending(b) == \A i \in 1..(Len(b) - 1) : b[i] < b[i + 1]

\* bin edges: ascending, at least three (binned_statistic gets bins[1:], which
\* must hold at least two edges to be read as edges)
BinChoices == {b \in SeqsUpTo(0..MaxQ, MaxQ + 1) : Len(b) >= 3 /\ Ascending(b)}

AlphaChoices ==
    {[kind |-> "scalar", val |-> <<1>>],
     [kind |-> "tuple", val |-> <<1>>],
     [kind |-> "tuple", val |-> <<1, 3>>],
     [kind |-> "tuple", val |-> <<1, 3, 5>>],
     [kind |-> "array", val |-> <<1>>],
     [kind |-> "array", val |-> <<1, 2>>],
     [kind |-> "array", val |-> <<1, 2, 3>>]}

Given(shp, data) == [given |-> TRUE, shape |-> shp, data |-> data]

(***************************************************************************)
(* The components at rest                                                  *)
(***************************************************************************)
RingIdle ==
    /\ shape = <<0, 0>> /\ img = <<>> /\ q = <<>> /\ bins = <<>>
    /\ alpha = [kind |-> "scalar", val |-> <<0>>]
    /\ mask = NoMask
    /\ ring_pc = "idle"
    /\ ring_out = [status |-> "none", mask |-> <<>>]

MdIdle ==
    /\ md_dict = <<>>
    /\ md_call = [op |-> "none", key |-> <<>>, status |-> "ok", ret |-> NoneNode]

SubIdle ==
    /\ img_arr = <<>> /\ is_reference = <<>> /\ ref_imge = <<>>
    /\ corrected_image = <<>> /\ count = 0 /\ sub_i = 0 /\ sub_pc = "idle"

DetIdle ==
    /\ det_img = <<>> /\ det_shape = <<0, 0>> /\ detector_center = <<0, 0>>
    /\ flat = <<>> /\ counter = 0 /\ it = NdIter(<<0, 0>>) /\ det_pc = "idle"

ProjIdle ==
    /\ proj_cfg = [xsize |-> 0, ysize |-> 0, xc |-> 0, yc |-> 0, rmin |-> 0,
                   rmax |-> 0, nbins |-> 0, phimin |-> 0, phimax |-> 0,
                   cartesian |-> FALSE]
    /\ proj_image = <<>>
    /\ projection = [wedge |-> <<>>, full |-> <<>>]
    /\ proj_pc = "idle"

(***************************************************************************)
(* ring_blur_mask: one call                                                *)
(***************************************************************************)
RingCall ==
    /\ ring_pc = "start"
    /\ ring_out' = ring_blur_mask(shape, img, q, alpha, bins, mask)
    /\ ring_pc' = "done"
    /\ UNCHANGED <<shape, img, q, alpha, bins, mask>>
    /\ UNCHANGED <<mdVars, subVars, detVars, projVars>>

RingRest == MdIdle /\ SubIdle /\ DetIdle /\ ProjIdle

\* any image of NPix pixels, any q map, any starting mask of the image's shape
InitRing ==
    /\ shape = <<1, NPix>>
    /\ img \in [1..NPix -> 0..MaxI]
    /\ q \in [1..NPix -> 0..MaxQ]
    /\ bins \in BinChoices
    /\ alpha \in AlphaChoices
    /\ mask \in {NoMask} \cup {Given(<<1, NPix>>, d) : d \in [1..NPix -> BOOLEAN]}
    /\ ring_pc = "start"
    /\ ring_out = [status |-> "none", mask |-> <<>>]
    /\ RingRest

NextRing == RingCall

SpecRing == InitRing /\ [][NextRing]_vars

\* images of every 2-D shape of up to ShapeMaxPix pixels, with a starting mask
\* of any 1-D or 2-D shape of up to ShapeMaxPix elements
Shapes2D == {<<h, w>> : h \in 1..ShapeMaxPix, w \in 1..ShapeMaxPix}

ImageShapes == {s \in Shapes2D : Size(s) <= ShapeMaxPix}

MaskShapes == ImageShapes \cup {<<n>> : n \in 1..ShapeMaxPix}

InitShape ==
    /\ shape \in ImageShapes
    /\ img \in [1..Size(shape) -> {0, 9}]
    /\ q = [p \in 1..Size(shape) |-> 1]
    /\ bins = <<0, 1, 2>>
    /\ alpha = [kind |-> "scalar", val |-> <<1>>]
    /\ \E ms \in MaskShapes : mask \in {Given(ms, d) : d \in [1..Size(ms) -> BOOLEAN]}
    /\ ring_pc = "start"
    /\ ring_out = [status |-> "none", mask |-> <<>>]
    /\ RingRest

SpecShape == InitShape /\ [][NextRing]_vars

\* images made of one ring of n pixels, all of value v but one of value w,
\* followed by up to MaxExtra pixels that sit on a bin edge; alpha = 3,
\* all-true mask
OutlierBins == {<<0, 2, 4>>, <<0, 2, 4, 6>>, <<1, 3, 5, 7>>}

InitOutlier ==
    /\ bins \in OutlierBins
    /\ alpha = [kind |-> "scalar", val |-> <<3>>]
    /\ \E back \in 0..2, n \in 2..MaxRing, e \in 0..MaxExtra, qoff \in 0..1,
          d \in {-100, 100} :
       LET k == NRings(bins) - 1 - back IN   \* the ring, counted from the last
         /\ k >= 0
         /\ shape = <<1, n + e>>
         /\ \E o \in {1, n}, xq \in [1..e -> {bins[j] : j \in 1..Len(bins)}] :
              /\ img = [p \in 1..(n + e) |->
                          IF p > n THEN 50 ELSE IF p = o THEN 3 + d ELSE 3]
              /\ q = [p \in 1..(n + e) |->
                          IF p > n THEN xq[p - n] ELSE At0(bins, k) + qoff]
         /\ mask \in {NoMask, Given(shape, [p \in 1..(n + e) |-> TRUE])}
    /\ ring_pc = "start"
    /\ ring_out = [status |-> "none", mask |-> <<>>]
    /\ RingRest

SpecOutlier == InitOutlier /\ [][NextRing]_vars

(***************************************************************************)
(* MD_dict: __setitem__, __getitem__, __delitem__ on dotted keys           *)
(***************************************************************************)
Paths == SeqsUpTo(Keys, MaxDepth) \ {<<>>}

MdSet(ks, val) ==
    /\ md_dict' = SetItem(md_dict, ks, val)
    /\ md_call' = [op |-> "set", key |-> ks, status |-> "ok", ret |-> NoneNode]
    /\ UNCHANGED <<ringVars, subVars, detVars, projVars>>

MdGet(ks) ==
    /\ md_dict' = GetItemDict(md_dict, ks)
    /\ md_call' = [op |-> "get", key |-> ks, status |-> "ok",
                   ret |-> GetItemValue(md_dict, ks)]
    /\ UNCHANGED <<ringVars, subVars, detVars, projVars>>

MdDel(ks) ==
    /\ md_dict' = DelItem(md_dict, ks)
    /\ md_call' = [op |-> "del", key |-> ks, status |-> DelItemStatus(md_dict, ks),
                   ret |-> NoneNode]
    /\ UNCHANGED <<ringVars, subVars, detVars, projVars>>

InitMD == MdIdle /\ RingIdle /\ SubIdle /\ DetIdle /\ ProjIdle

NextMD ==
    \/ \E ks \in Paths, val \in SetVals : MdSet(ks, val)
    \/ \E ks \in Paths : MdGet(ks)
    \/ \E ks \in Paths : MdDel(ks)

SpecMD == InitMD /\ [][NextMD]_vars

(***************************************************************************)
(* img_subtraction_pre, one loop pass per step.  sub_i is the 1-based      *)
(* position in img_arr of the pair the zip over img_arr[1:] yields next.   *)
(***************************************************************************)
PixelValues == {0, 1}

Images == [1..2 -> PixelValues]

\* lines 242-254
SubStart ==
    /\ sub_pc = "start"
    /\ IF ~is_reference[1]
       THEN /\ sub_pc' = "ValueError"
            /\ UNCHANGED <<ref_imge, corrected_image, count, sub_i>>
       ELSE /\ ref_imge' = img_arr[1]
            /\ corrected_image' =
                 [k \in 1..(Len(img_arr) - RefCount(is_reference)) |-> ZeroImg(img_arr[1])]
            /\ count' = 0
            /\ sub_i' = 2
            /\ sub_pc' = "loop"
    /\ UNCHANGED <<img_arr, is_reference>>
    /\ UNCHANGED <<ringVars, mdVars, detVars, projVars>>

\* lines 256-264
SubLoop ==
    /\ sub_pc = "loop"
    /\ sub_i <= Len(img_arr)
    /\ ref_imge' = NextRef(ref_imge, img_arr[sub_i], is_reference[sub_i])
    /\ IF is_reference[sub_i]
       THEN UNCHANGED <<corrected_image, count>>
       ELSE /\ corrected_image' =
                 [corrected_image EXCEPT ![count + 1] = ImgMinus(img_arr[sub_i], ref_imge)]
            /\ count' = count + 1
    /\ sub_i' = sub_i + 1
    /\ UNCHANGED <<img_arr, is_reference, sub_pc>>
    /\ UNCHANGED <<ringVars, mdVars, detVars, projVars>>

\* line 267
SubReturn ==
    /\ sub_pc = "loop"
    /\ sub_i > Len(img_arr)
    /\ sub_pc' = "returned"
    /\ UNCHANGED <<img_arr, is_reference, ref_imge, corrected_image, count, sub_i>>
    /\ UNCHANGED <<ringVars, mdVars, detVars, projVars>>

InitSub ==
    /\ \E n \in 1..MaxSeries :
         /\ img_arr \in [1..n -> Images]
         /\ is_reference \in [1..n -> BOOLEAN]
    /\ ref_imge = <<>> /\ corrected_image = <<>> /\ count = 0 /\ sub_i = 0
    /\ sub_pc = "start"
    /\ RingIdle /\ MdIdle /\ DetIdle /\ ProjIdle

NextSub == SubStart \/ SubLoop \/ SubReturn

SpecSub == InitSub /\ [][NextSub]_vars

(***************************************************************************)
(* detector2D_to_1D, one pass of the while loop per step                   *)
(***************************************************************************)
\* lines 277-281
DetStart ==
    /\ det_pc = "start"
    /\ flat' = NoneList(det_shape[1] * det_shape[2])
    /\ counter' = 0
    /\ it' = NdIter(det_shape)
    /\ det_pc' = "loop"
    /\ UNCHANGED <<det_img, det_shape, detector_center>>
    /\ UNCHANGED <<ringVars, mdVars, subVars, projVars>>

\* lines 282-290: the body stores through flat[counter] and adds one to
\* counter; nothing in it advances the iterator.  A store past the end of
\* flat raises IndexError.
DetLoop ==
    /\ det_pc = "loop"
    /\ IF it.finished
       THEN /\ det_pc' = "returned"
            /\ UNCHANGED <<flat, counter>>
       ELSE IF counter >= Len(flat)
       THEN /\ det_pc' = "IndexError"
            /\ UNCHANGED <<flat, counter>>
       ELSE /\ flat' = [flat EXCEPT ![counter + 1] =
                          Triple(det_img, det_shape, it, detector_center)]
            /\ counter' = counter + 1
            /\ UNCHANGED det_pc
    /\ UNCHANGED <<det_img, det_shape, detector_center, it>>
    /\ UNCHANGED <<ringVars, mdVars, subVars, projVars>>

InitDet ==
    /\ det_shape \in {<<h, w>> : h \in 1..DetMaxSide, w \in 1..DetMaxSide}
    /\ det_img \in [1..Size(det_shape) -> {0, 7}]
    /\ detector_center \in {<<0, 0>>, <<1, 0>>, <<1, 1>>}
    /\ flat = <<>> /\ counter = 0 /\ it = NdIter(<<0, 0>>)
    /\ det_pc = "start"
    /\ RingIdle /\ MdIdle /\ SubIdle /\ ProjIdle

NextDet == DetStart \/ DetLoop

SpecDet == InitDet /\ [][NextDet]_vars

(***************************************************************************)
(* RadialProjector: the same image projected with and without the wedge    *)
(***************************************************************************)
Wedges == {<<0, 45>>, <<0, 90>>, <<45, 135>>, <<90, 270>>, <<180, 360>>, <<0, 360>>}

Intensities == {-1, 0, 1}

ProjCall ==
    /\ proj_pc = "start"
    /\ projection' = [wedge |-> Project(proj_cfg, proj_image, TRUE),
                      full  |-> Project(proj_cfg, proj_image, FALSE)]
    /\ proj_pc' = "done"
    /\ UNCHANGED <<proj_cfg, proj_image>>
    /\ UNCHANGED <<ringVars, mdVars, subVars, detVars>>

InitProj ==
    /\ \E c \in {0, 1}, w \in Wedges, cart \in BOOLEAN :
         proj_cfg = [xsize |-> ProjX, ysize |-> 2, xc |-> c, yc |-> c,
                     rmin |-> 0, rmax |-> ProjX, nbins |-> 2,
                     phimin |-> w[1], phimax |-> w[2], cartesian |-> cart]
    /\ proj_image \in [1..(ProjX * 2) -> Intensities]
    /\ projection = [wedge |-> <<>>, full |-> <<>>]
    /\ proj_pc = "start"
    /\ RingIdle /\ MdIdle /\ SubIdle /\ DetIdle

NextProj == ProjCall

SpecProj == InitProj /\ [][NextProj]_vars

(***************************************************************************)
(* Claims about ring_blur_mask                                             *)
(***************************************************************************)
\* the starting mask, as the claims read it: all true when none is given
GivenMask == IF mask.given THEN mask.data ELSE OnesMask(shape)

AllTrueMask == \A p \in 1..Len(GivenMask) : GivenMask[p]

\* the starting-mask-true pixels of ring k
RingMembers(k) == {p \in 1..Len(q) : GivenMask[p] /\ InRing(bins, k, q[p])}

\* mean[k] - a*std[k] <= v <= mean[k] + a*std[k] over the pixels P
WithinBand(v, P, a) ==
    LET st == Stats(img, P) IN ~TooLow(v, st, <<a, 1>>) /\ ~TooHi(v, st, <<a, 1>>)

\* C1: with a scalar alpha, a pixel of ring k (the first ring included) keeps
\* its place in the mask exactly when it had one and its intensity is within
\* alpha standard deviations of the mean of the masked pixels of ring k.
C1_RingBand ==
    (ring_pc = "done" /\ ring_out.status = "ok" /\ alpha.kind = "scalar")
    => \A p \in 1..Len(img) : \A k \in 0..(NRings(bins) - 1) :
          InRing(bins, k, q[p])
          => (ring_out.mask[p]
                <=> (GivenMask[p] /\ WithinBand(img[p], RingMembers(k), alpha.val[1])))

OutOfRange(p) == q[p] < bins[1] \/ q[p] >= bins[Len(bins)]

\* C2: a pixel whose q is outside [bins[0], bins[-1]) comes back as it was in
\* the starting mask, whatever its intensity, and is counted in the
\* statistics of no ring.
C2_OutOfRangeUntouched ==
    (ring_pc = "done" /\ ring_out.status = "ok")
    => \A p \in 1..Len(img) :
          OutOfRange(p)
          => /\ ring_out.mask[p] = GivenMask[p]
             /\ \A j \in 0..(NStat(bins) - 1) : p \notin StatPixels(bins, q, GivenMask, j)

\* C5: alpha is accepted when it is a scalar, a 2-tuple or a sequence with one
\* entry per ring, len(bins) - 1 of them; every other alpha ends in an error,
\* every accepted one in a mask.
AlphaAccepted ==
    \/ alpha.kind = "scalar"
    \/ alpha.kind = "tuple" /\ Len(alpha.val) = 2
    \/ Len(alpha.val) = NRings(bins)

C5_AlphaChecked ==
    ring_pc = "done"
    => /\ ~AlphaAccepted => ring_out.status # "ok"
       /\ AlphaAccepted => ring_out.status = "ok"

\* C4, as claimed: a mask of another shape than the image's ends in an error.
C4_ShapeMismatchFails ==
    (ring_pc = "done" /\ mask.given /\ mask.shape # shape)
    => ring_out.status # "ok"

\* C4, amended: a mask of another shape ends in ValueError, with no mask
\* returned, when its element count differs from the image's; with the same
\* element count it is read in row-major order as a mask of the image's shape:
\* the call succeeds, returns one entry per pixel, keeps no pixel whose entry
\* in the flat mask was false, and equals the call with that reshaped mask.
C4_MaskReshaped ==
    (ring_pc = "done" /\ mask.given /\ mask.shape # shape)
    => IF Size(mask.shape) # Size(shape)
       THEN ring_out = [status |-> "ValueError", mask |-> <<>>]
       ELSE /\ ring_out.status = "ok"
            /\ Len(ring_out.mask) = Size(shape)
            /\ \A p \in 1..Size(shape) : ring_out.mask[p] => mask.data[p]
            /\ ring_out = ring_blur_mask(shape, img, q, alpha, bins, Given(shape, mask.data))

\* a flattened mask of a 2 x 2 image is taken, and the call masks a pixel
C4_Witness ==
    /\ ring_pc = "done" /\ mask.given
    /\ shape = <<2, 2>> /\ mask.shape \in {<<4>>, <<1, 4>>}
    /\ ring_out.status = "ok"
    /\ ~mask.data[2] /\ mask.data[3] /\ ring_out.mask[3]
    /\ \E p \in 1..4 : mask.data[p] /\ ~ring_out.mask[p]

\* a ring k whose pixels all hold one value but pixel o, which is far off
OutlierRing(k, o) ==
    LET ring == {p \in 1..Len(q) : InRing(bins, k, q[p])}
    IN  /\ o \in ring
        /\ Cardinality(ring) >= 2
        /\ \A p1, p2 \in ring \ {o} : img[p1] = img[p2]
        /\ \A p \in ring \ {o} : img[o] - img[p] >= 50 \/ img[p] - img[o] >= 50

RingSize(k) == Cardinality({p \in 1..Len(q) : InRing(bins, k, q[p])})

OnlyOutlierMasked(k, o) ==
    /\ ring_out.status = "ok"
    /\ ~ring_out.mask[o]
    /\ \A p \in 1..Len(q) : (InRing(bins, k, q[p]) /\ p # o) => ring_out.mask[p]

NoPixelOnLastEdge == \A p \in 1..Len(q) : q[p] # bins[Len(bins)]

WedgeBelowFull ==
    \A b \in 1..proj_cfg.nbins : projection.wedge[b] <= projection.full[b]

\* C6, as claimed: for every image, no bin's sum over the wedge is greater
\* than the same bin's sum over the full circle.
C6_WedgeNeverMore == proj_pc = "done" => WedgeBelowFull

NonNegative == \A p \in 1..Len(proj_image) : proj_image[p] >= 0

\* C6, amended: for every image without a negative intensity, no bin's sum
\* over the wedge is greater than the same bin's sum over the full circle.
C6_WedgeNeverMoreNonNeg == (proj_pc = "done" /\ NonNegative) => WedgeBelowFull

\* a wedge that holds part of a bin's (non-negative) intensity
C6_Witness ==
    /\ proj_pc = "done" /\ NonNegative
    /\ proj_cfg.phimax - proj_cfg.phimin < 360
    /\ \E b \in 1..proj_cfg.nbins :
         0 < projection.wedge[b] /\ projection.wedge[b] < projection.full[b]

(***************************************************************************)
(* Claims about img_subtraction_pre                                        *)
(***************************************************************************)
\* the position in img_arr of the k-th measured (non-reference) image
MeasuredAt(k) ==
    CHOOSE i \in 1..Len(img_arr) :
        /\ ~is_reference[i]
        /\ Cardinality({j \in 1..(i - 1) : ~is_reference[j]}) = k - 1

\* the nearest reference image before position i
RefBefore(i) ==
    CHOOSE r \in 1..(i - 1) :
        is_reference[r] /\ \A j \in (r + 1)..(i - 1) : ~is_reference[j]

NMeasured == Cardinality({i \in 1..Len(img_arr) : ~is_reference[i]})

\* C7: when the first flag is true the call returns one image per measured
\* image, in order, each the measured image minus the nearest reference before
\* it; when the first flag is false it raises ValueError and returns nothing.
C7_Subtraction ==
    /\ sub_pc = "returned"
       => /\ is_reference[1]
          /\ Len(corrected_image) = NMeasured
          /\ \A k \in 1..NMeasured :
               corrected_image[k] =
                 ImgMinus(img_arr[MeasuredAt(k)], img_arr[RefBefore(MeasuredAt(k))])
    /\ sub_pc = "ValueError" => ~is_reference[1]
    /\ sub_pc \in {"loop", "returned"} => is_reference[1]
    /\ (sub_pc = "loop" /\ sub_i > Len(img_arr)) => count = NMeasured

\* a measured image after two references has the second one subtracted
C7_Witness ==
    /\ sub_pc = "returned"
    /\ Len(img_arr) = 3
    /\ is_reference = <<TRUE, TRUE, FALSE>>
    /\ img_arr[1] # img_arr[2]
    /\ corrected_image = <<ImgMinus(img_arr[3], img_arr[2])>>
    /\ corrected_image[1] # <<0, 0>>

(***************************************************************************)
(* Claims about MD_dict                                                    *)
(***************************************************************************)
\* the path of key ks passes through an existing leaf
ThroughLeaf(d, ks) == \E i \in 1..(Len(ks) - 1) : IsLeaf(d, SubSeq(ks, 1, i))

\* C8: setting a key whose path passes through an existing leaf raises
\* KeyError and leaves the store as it was.
C8_SetThroughLeafRaises ==
    [][(md_call'.op = "set" /\ ThroughLeaf(md_dict, md_call'.key))
         => (md_call'.status = "KeyError" /\ md_dict' = md_dict)]_vars

\* C10: a get leaves every leaf and every branch of the store as they were.
C10_GetChangesNothing ==
    [][md_call'.op = "get" => md_dict' = md_dict]_vars

(***************************************************************************)
(* Claims about detector2D_to_1D                                           *)
(***************************************************************************)
\* the triple of every pixel, once, in row-major order
AllTriples ==
    [p \in 1..Size(det_shape) |->
        <<((p - 1) \div det_shape[2]) - detector_center[1],
          ((p - 1) % det_shape[2]) - detector_center[2],
          det_img[p]>>]

\* C9: the call ends normally, and what it returns holds the triple of every
\* pixel exactly once.
C9_ReturnsAllTriples ==
    /\ det_pc # "IndexError"
    /\ det_pc = "returned" => flat = AllTriples

====
